---- MODULE Spec2Model ----
(***************************************************************************)
(* go-url-check: the concurrent engine of src/main.go (lines 455-1044).    *)
(* main = ParseArgs; StartSignalHandler; Process.  Process starts Threads  *)
(* worker goroutines that pull targets from urlChannel and run Check on    *)
(* them, while the main goroutine ranges over the wordlist and sends each  *)
(* word on urlChannel.                                                     *)
(*                                                                         *)
(* Go strings are sequences of character codes, so that PrefixURL and      *)
(* PrintResponse compute on them as the code does.                         *)
(*                                                                         *)
(* Shared memory: state.ShouldClose and state.Responses are read and       *)
(* written by several goroutines without synchronisation.  Each read and   *)
(* each write is one step on a single memory; the steps of the goroutines  *)
(* interleave freely, so a worker may store a value of state.Responses     *)
(* built from a read that another worker's store has since overtaken.      *)
(* A step is as large as the code between two accesses to shared state.    *)
(*                                                                         *)
(* Three more specifications share the variables: SpecThrottle (a run of   *)
(* 250 words with throttling), SpecSequential (the sequential engine of    *)
(* src/unnamed/part_000, where Process calls Check itself) and SpecCalls   *)
(* (Check, PrintResponse and PrefixURL called on their own).               *)
(***************************************************************************)
EXTENDS Integers, Sequences, FiniteSets, TLC

VARIABLES
    argv,         \* the command line and the wordlist file (inputs of ParseArgs)
    network,      \* what http.Get answers for each target (input)
    order,        \* the order in which `range state.Wordlist.set` yields the words
    state,        \* *State returned by ParseArgs; Nil when ParseArgs returned nil
    Responses,    \* state.Responses
    ShouldClose,  \* state.ShouldClose
    pc,           \* position of the main goroutine
    handler,      \* TRUE once StartSignalHandler installed the handler goroutine
    sigChan,      \* number of signals buffered in state.SignalChannel (capacity 1)
    sigSent,      \* interrupts delivered by the OS so far
    urlChannel,   \* buffer of urlChannel
    closed,       \* urlChannel was closed
    closes,       \* number of close(urlChannel) calls
    wg,           \* processorGroup counter
    i,            \* the dispatcher's counter i
    pauses,       \* values of i at which the dispatcher slept (time.Sleep)
    dropped,      \* words the range loop never sent because of the break
    cancelAt,     \* the dispatcher's i when state.ShouldClose became true, and
                  \* whether that was before the first iteration of its loop
    wpc,          \* position of each worker goroutine
    wurl,         \* each worker's url
    wresp,        \* each worker's resp (in Check)
    wret,         \* each worker's value returned by state.Processor, not yet stored
    probed,       \* per word: number of times state.Processor was called with it
    output,       \* what WriteOutput did: the file it created and its lines
    args,         \* the arguments of a function that is called on its own
    result        \* what that function returned

vars == <<argv, network, order, state, Responses, ShouldClose, pc, handler,
          sigChan, sigSent, urlChannel, closed, closes, wg, i, pauses, dropped,
          cancelAt, wpc, wurl, wresp, wret, probed, output, args, result>>

----------------------------------------------------------------------------
(* Bounds of the model *)

MaxThreads == 2
MaxTargets == 2
MaxSignals == 1
MaxStatusCode == 999

----------------------------------------------------------------------------
(* Strings *)

\* ""
EmptyString == <<>>

\* "http", the prefix PrefixURL tests for
StrHttp == <<104, 116, 116, 112>>

\* "https://", the scheme PrefixURL prepends
StrHttpsScheme == <<104, 116, 116, 112, 115, 58, 47, 47>>

\* " "
Space == 32

\* resp.Status values: "200 OK", "404 Not Found", and "200" (a status line
\* without reason phrase, which net/http accepts and reports as is)
Status200OK == <<50, 48, 48, 32, 79, 75>>
Status404 == <<52, 48, 52, 32, 78, 111, 116, 32, 70, 111, 117, 110, 100>>
Status200Bare == <<50, 48, 48>>

\* strings.HasPrefix(s, prefix)
HasPrefix(s, prefix) ==
    /\ Len(s) >= Len(prefix)
    /\ SubSeq(s, 1, Len(prefix)) = prefix

\* strings.Index(s, " "): 0-based index of the first space, -1 when none
IndexSpace(s) ==
    IF \E k \in 1..Len(s) : s[k] = Space
    THEN (CHOOSE k \in 1..Len(s) : s[k] = Space /\ \A j \in 1..(k-1) : s[j] # Space) - 1
    ELSE -1

\* a PrefixURL that returns the scheme alone for a url without the prefix
PrefixURLSchemeOnly(url) ==
    IF ~HasPrefix(url, StrHttp) THEN StrHttpsScheme ELSE url

\* PrefixURL
PrefixURL(url) ==
    IF ~HasPrefix(url, StrHttp) THEN StrHttpsScheme \o url ELSE url

----------------------------------------------------------------------------
(* Values *)

Nil == [nil |-> TRUE]
\* state.ShouldClose has not been set
NotCancelled == [set |-> FALSE, K |-> 0, beforeLoop |-> FALSE]

\* a file that does not exist, a file os.Open fails on, and a file holding the
\* given lines
NoFile == [exists |-> FALSE, readable |-> FALSE, lines |-> <<>>]
UnreadableFile == [exists |-> TRUE, readable |-> FALSE, lines |-> <<>>]
FileOf(lines) == [exists |-> TRUE, readable |-> TRUE, lines |-> lines]

\* WriteOutput has not been called
NoOutput == [called |-> FALSE, created |-> FALSE, lines |-> <<>>, failed |-> {},
             ok |-> FALSE]

\* no function is called on its own
NoCall == [fn |-> "none"]

\* *http.Response as Request returns it: nil on error, else its Status
NoResponse == [ok |-> FALSE, Status |-> EmptyString]
HTTPResponse(status) == [ok |-> TRUE, Status |-> status]

\* URLResponse{StatusCode, URL}
URLResponse(status, url) == [StatusCode |-> status, URL |-> url]

Range(s) == {s[k] : k \in 1..Len(s)}

\* every order in which ranging over a Go map with key set S can yield the keys
MapOrders(S) ==
    {s \in [1..Cardinality(S) -> S] : \A a, b \in 1..Cardinality(S) : s[a] = s[b] => a = b}

----------------------------------------------------------------------------
(* ParseArgs *)

\* StringSet.AddRange
AddRange(set, ss) == set \cup Range(ss)

\* StringSet.Add
Add(set, s) == set \cup {s}

\* FileExists: os.Stat succeeds
FileExists(a) == a.file.exists

\* os.Open succeeds
Opens(a) == a.file.readable

\* ParseWordlist: the StringSet after the call (it starts empty)
ParseWordlist(a) ==
    IF a.wordlist # EmptyString /\ FileExists(a) /\ Opens(a)
    THEN AddRange({}, a.file.lines)
    ELSE {}

\* state.Wordlist.set as ParseArgs leaves it
WordlistOf(a) ==
    IF a.wordlist # EmptyString THEN ParseWordlist(a) ELSE Add({}, a.URL)

\* the test `s.Threads < 0` of ParseArgs
InvalidThreads(t) == t < 0

\* a ParseArgs that does not test the size of the wordlist
ValidWithoutWordlistTest(a) ==
    /\ ~InvalidThreads(a.Threads)
    /\ ~(a.URL = EmptyString /\ a.wordlist = EmptyString)

\* the local `valid` of ParseArgs at its end
Valid(a) ==
    /\ ~InvalidThreads(a.Threads)
    /\ ~(a.URL = EmptyString /\ a.wordlist = EmptyString)
    /\ (a.wordlist # EmptyString => ~(Cardinality(WordlistOf(a)) < 1))

\* the State ParseArgs builds
StateOf(a) ==
    [Threads        |-> a.Threads,
     Verbose        |-> a.Verbose,
     Throttle       |-> a.Throttle,
     OutputFileName |-> a.OutputFileName,
     WriteOutput    |-> a.OutputFileName # EmptyString,
     Wordlist       |-> WordlistOf(a)]

ParseArgs ==
    /\ pc = "ParseArgs"
    /\ state' = IF Valid(argv) THEN StateOf(argv) ELSE Nil
    /\ pc' = IF Valid(argv) THEN "StartSignalHandler" ELSE "exit"
    /\ UNCHANGED <<args, result, argv, network, order, Responses, ShouldClose, handler, sigChan,
                   sigSent, urlChannel, closed, closes, wg, i, pauses, dropped,
                   cancelAt, wpc, wurl, wresp, wret, probed, output>>

----------------------------------------------------------------------------
(* Inputs *)

\* the targets of the model: "", "a", "b", ...
TargetNames == {EmptyString} \cup {<<96 + k>> : k \in 1..MaxTargets}

\* -t
ThreadChoices == (0 - 1)..MaxThreads

\* s[1] < s[2] < ... for the words of s other than ""
Ascending(s) ==
    \A p, q \in 1..Len(s) :
        (p < q /\ s[p] # EmptyString /\ s[q] # EmptyString) => s[p][1] < s[q][1]

\* the words "a", "b", ... are treated alike by the program and every assignment
\* of answers to them is drawn, so one wordlist per number of words other than
\* "" is drawn, with and without an empty line
WordlistChoices ==
    {S \in SUBSET TargetNames :
        \A k \in 1..MaxTargets : <<96 + k>> \in S => \A j \in 1..k : <<96 + j>> \in S}

\* one wordlist file per wordlist
FileChoices == {FileOf(CHOOSE s \in MapOrders(S) : TRUE) : S \in WordlistChoices}

\* the orders drawn for a wordlist: "" at every position among the other words
OrderChoices(S) == {s \in MapOrders(S) : Ascending(s)}

\* what a server can answer; http.Get("https://") fails (no host)
ResponseChoices(t) ==
    IF t = EmptyString
    THEN {NoResponse}
    ELSE {NoResponse, HTTPResponse(Status200OK), HTTPResponse(Status200Bare)}

\* "w", "o": the paths given with -w and -o
WordlistPath == <<119>>
OutputPath == <<111>>

Workers == 1..MaxThreads

\* the state before main runs, for a command line a, a map order ord and servers net
InitWith(a, ord, net) ==
    /\ argv = a
    /\ order = ord
    /\ network = net
    /\ state = Nil
    /\ Responses = <<>>
    /\ ShouldClose = FALSE
    /\ pc = "ParseArgs"
    /\ handler = FALSE
    /\ sigChan = 0
    /\ sigSent = 0
    /\ urlChannel = <<>>
    /\ closed = FALSE
    /\ closes = 0
    /\ wg = 0
    /\ i = 0
    /\ pauses = <<>>
    /\ dropped = {}
    /\ cancelAt = NotCancelled
    /\ wpc = [w \in Workers |-> "none"]
    /\ wurl = [w \in Workers |-> EmptyString]
    /\ wresp = [w \in Workers |-> NoResponse]
    /\ wret = [w \in Workers |-> <<>>]
    /\ probed = [t \in WordlistOf(a) |-> 0]
    /\ output = NoOutput
    /\ args = NoCall
    /\ result = NoCall

\* the command lines drawn; state.Throttle only matters from ThrottleAfter words
\* on and is drawn in InitThrottle
ArgChoices ==
    {a \in [Threads : ThreadChoices, Verbose : BOOLEAN, Throttle : {FALSE},
            OutputFileName : {EmptyString, OutputPath},
            URL : {EmptyString, <<97>>},
            wordlist : {EmptyString, WordlistPath},
            file : {NoFile, UnreadableFile} \cup FileChoices] :
        \* without -w the file plays no part; with -w, -u plays none
        /\ a.wordlist = EmptyString => a.file = NoFile
        /\ a.wordlist # EmptyString => a.URL = EmptyString}

Init ==
    \E a \in ArgChoices :
        \E ord \in OrderChoices(WordlistOf(a)) :
            \E net \in [WordlistOf(a) -> UNION {ResponseChoices(t) : t \in WordlistOf(a)}] :
                /\ \A t \in WordlistOf(a) : net[t] \in ResponseChoices(t)
                /\ InitWith(a, ord, net)

----------------------------------------------------------------------------
(* main, StartSignalHandler and the signal handler goroutine *)

\* the process is running: main has not returned and no goroutine has panicked
Alive == pc \notin {"exit", "panic"}

\* make(chan os.Signal, 1)
SignalChannelCap == 1

StartSignalHandler ==
    /\ pc = "StartSignalHandler"
    /\ handler' = TRUE
    /\ sigChan' = 0
    /\ pc' = "Process"
    /\ UNCHANGED <<args, result, argv, network, order, state, Responses, ShouldClose, sigSent,
                   urlChannel, closed, closes, wg, i, pauses, dropped, cancelAt,
                   wpc, wurl, wresp, wret, probed, output>>

\* the OS delivers an interrupt: signal.Notify's send does not block and drops
\* the signal when SignalChannel is full
Interrupt ==
    /\ Alive
    /\ handler
    /\ sigSent < MaxSignals
    /\ sigSent' = sigSent + 1
    /\ sigChan' = IF sigChan < SignalChannelCap THEN sigChan + 1 ELSE sigChan
    /\ UNCHANGED <<args, result, argv, network, order, state, Responses, ShouldClose, pc, handler,
                   urlChannel, closed, closes, wg, i, pauses, dropped, cancelAt,
                   wpc, wurl, wresp, wret, probed, output>>

\* the body of `for _ = range state.SignalChannel`: the flag after one signal
AfterSignal(verbose, flag) == IF verbose THEN TRUE ELSE flag

SignalHandler ==
    /\ Alive
    /\ handler
    /\ sigChan > 0
    /\ sigChan' = sigChan - 1
    /\ ShouldClose' = AfterSignal(state.Verbose, ShouldClose)
    /\ cancelAt' = IF ~ShouldClose /\ ShouldClose'
                   THEN [set |-> TRUE, K |-> i,
                         beforeLoop |-> pc \in {"Process", "range"} /\ i = 0]
                   ELSE cancelAt
    /\ UNCHANGED <<args, result, argv, network, order, state, Responses, pc, handler, sigSent,
                   urlChannel, closed, closes, wg, i, pauses, dropped,
                   wpc, wurl, wresp, wret, probed, output>>

----------------------------------------------------------------------------
(* Process: the main goroutine (dispatcher) *)

\* the two numbers of `i > 100 && i%100 == 0`
ThrottleAfter == 100
ThrottleEvery == 100

\* the condition under which the range loop reports progress and may sleep
ThrottlePoint(n) == n > ThrottleAfter /\ n % ThrottleEvery = 0

\* a test of the flag that the first iteration skips
CancelCheckAfterFirst(n, flag) == flag /\ n > 0

\* a test of the flag that only every other iteration makes
CancelCheckEveryOther(n, flag) == flag /\ n % 2 = 0

\* the test of state.ShouldClose that breaks the range loop
CancelCheck(n, flag) == flag

\* the words the range loop has not yet yielded after n sends
Remaining(n) == {order[k] : k \in (n + 1)..Len(order)}

\* a Process that clears state.ShouldClose when it starts
ProcessStartClearsFlag ==
    /\ pc = "Process"
    /\ urlChannel' = <<>>
    /\ closed' = FALSE
    /\ wg' = state.Threads
    /\ wpc' = [w \in Workers |-> IF w <= state.Threads THEN "recv" ELSE "none"]
    /\ i' = 0
    /\ pc' = "range"
    /\ ShouldClose' = FALSE
    /\ UNCHANGED <<args, result, argv, network, order, state, Responses, handler,
                   sigChan, sigSent, closes, pauses, dropped, cancelAt, wurl,
                   wresp, wret, probed, output>>

\* make(chan string, state.Threads), processorGroup.Add, the `go func()` loop
ProcessStart ==
    /\ pc = "Process"
    /\ urlChannel' = <<>>
    /\ closed' = FALSE
    /\ wg' = state.Threads
    /\ wpc' = [w \in Workers |-> IF w <= state.Threads THEN "recv" ELSE "none"]
    /\ i' = 0
    /\ pc' = "range"
    /\ UNCHANGED <<args, result, argv, network, order, state, Responses, ShouldClose, handler,
                   sigChan, sigSent, closes, pauses, dropped, cancelAt, wurl,
                   wresp, wret, probed, output>>

\* a range loop that closes urlChannel itself before it breaks
DispatcherRangeClosesAtBreak ==
    /\ pc = "range"
    /\ IF i = Len(order)
       THEN /\ pc' = "close"
            /\ UNCHANGED <<pauses, dropped, closed, closes>>
       ELSE /\ pauses' = IF ThrottlePoint(i) /\ state.Throttle
                         THEN Append(pauses, i)
                         ELSE pauses
            /\ IF CancelCheck(i, ShouldClose)
               THEN /\ pc' = "close"
                    /\ dropped' = Remaining(i)
                    /\ closed' = TRUE
                    /\ closes' = closes + 1
               ELSE /\ pc' = "send"
                    /\ UNCHANGED <<dropped, closed, closes>>
    /\ UNCHANGED <<args, result, argv, network, order, state, Responses, ShouldClose,
                   handler, sigChan, sigSent, urlChannel, wg, i,
                   cancelAt, wpc, wurl, wresp, wret, probed, output>>

\* one iteration of `for word := range state.Wordlist.set` up to the send: the
\* loop ends when the map is exhausted; else the dispatcher sleeps at a throttle
\* point, then reads state.ShouldClose and breaks when it is set
DispatcherRange ==
    /\ pc = "range"
    /\ IF i = Len(order)
       THEN /\ pc' = "close"
            /\ UNCHANGED <<pauses, dropped>>
       ELSE /\ pauses' = IF ThrottlePoint(i) /\ state.Throttle
                         THEN Append(pauses, i)
                         ELSE pauses
            /\ IF CancelCheck(i, ShouldClose)
               THEN /\ pc' = "close"
                    /\ dropped' = Remaining(i)
               ELSE /\ pc' = "send"
                    /\ UNCHANGED dropped
    /\ UNCHANGED <<args, result, argv, network, order, state, Responses, ShouldClose, handler,
                   sigChan, sigSent, urlChannel, closed, closes, wg, i,
                   cancelAt, wpc, wurl, wresp, wret, probed, output>>

\* a channel made with one more slot than there are workers
CanSendOneMore(ch, threads) == Len(ch) <= threads

\* a send on make(chan string, threads) goes through when the buffer has room
CanSend(ch, threads) == Len(ch) < threads

\* urlChannel <- word; i++ (blocks while the buffer is full; with capacity 0
\* there is no worker to receive, and the send blocks for ever)
DispatcherSend ==
    /\ pc = "send"
    /\ CanSend(urlChannel, state.Threads)
    /\ urlChannel' = Append(urlChannel, order[i + 1])
    /\ i' = i + 1
    /\ pc' = "range"
    /\ UNCHANGED <<args, result, argv, network, order, state, Responses, ShouldClose, handler,
                   sigChan, sigSent, closed, closes, wg, pauses, dropped,
                   cancelAt, wpc, wurl, wresp, wret, probed, output>>

\* close(urlChannel)
DispatcherClose ==
    /\ pc = "close"
    /\ closed' = TRUE
    /\ closes' = closes + 1
    /\ pc' = "wait"
    /\ UNCHANGED <<args, result, argv, network, order, state, Responses, ShouldClose, handler,
                   sigChan, sigSent, urlChannel, wg, i, pauses, dropped,
                   cancelAt, wpc, wurl, wresp, wret, probed, output>>

\* a Wait that returns while one worker has not called Done
WaitReleasedEarly(n) == n <= 1

\* processorGroup.Wait() returns when the counter is zero
WaitReleased(n) == n = 0

\* processorGroup.Wait()
DispatcherWait ==
    /\ pc = "wait"
    /\ WaitReleased(wg)
    /\ pc' = IF state.WriteOutput THEN "WriteOutput" ELSE "exit"
    /\ UNCHANGED <<args, result, argv, network, order, state, Responses, ShouldClose, handler,
                   sigChan, sigSent, urlChannel, closed, closes, wg, i, pauses,
                   dropped, cancelAt, wpc, wurl, wresp, wret, probed, output>>

\* fmt.Sprintf("%s %s\n", URL, StatusCode)
OutputLine(r) == r.URL \o <<Space>> \o r.StatusCode \o <<10>>

\* the subsequence of s at the indices in keep
Keep(s, keep) ==
    LET F[k \in 0..Len(s)] ==
            IF k = 0 THEN <<>>
            ELSE IF k \in keep THEN Append(F[k - 1], s[k]) ELSE F[k - 1]
    IN F[Len(s)]

\* a loop that returns at the first WriteString that fails
WrittenLinesUntilFailure(lines, failed) ==
    Keep(lines, {k \in 1..Len(lines) : \A j \in 1..k : j \notin failed})

\* the file after the loop over state.Responses: a WriteString that fails is
\* reported and the loop goes on with the next Outcome
WrittenLines(lines, failed) == Keep(lines, (1..Len(lines)) \ failed)

\* what WriteOutput does when os.Create succeeds (created) or fails, and the
\* WriteString calls of the Outcomes in failed fail
WriteOutputOf(responses, name, created, failed) ==
    IF name # EmptyString
    THEN IF ~created
         THEN [called |-> TRUE, created |-> FALSE, lines |-> <<>>, failed |-> {},
               ok |-> FALSE]
         ELSE [called |-> TRUE, created |-> TRUE,
               lines |-> WrittenLines([k \in 1..Len(responses) |->
                                          OutputLine(responses[k])], failed),
               failed |-> failed, ok |-> TRUE]
    ELSE [called |-> TRUE, created |-> FALSE, lines |-> <<>>, failed |-> {},
          ok |-> FALSE]

\* WriteOutput(state), called by Process; main returns after it
WriteOutput ==
    /\ pc = "WriteOutput"
    /\ \/ output' = WriteOutputOf(Responses, state.OutputFileName, FALSE, {})
       \/ \E failed \in SUBSET (1..Len(Responses)) :
              output' = WriteOutputOf(Responses, state.OutputFileName, TRUE, failed)
    /\ pc' = "exit"
    /\ UNCHANGED <<args, result, argv, network, order, state, Responses, ShouldClose, handler,
                   sigChan, sigSent, urlChannel, closed, closes, wg, i, pauses,
                   dropped, cancelAt, wpc, wurl, wresp, wret, probed>>

----------------------------------------------------------------------------
(* Process: the worker goroutines, running Check (state.Processor) *)

\* a receive that leaves the value in the buffer
AfterReceivePeek(ch) == ch

\* what is left in the channel's buffer after a receive
AfterReceive(ch) == Tail(ch)

\* url := <-urlChannel: a buffered value, or "" from a closed and drained channel;
\* `if url == "" { break }` then leads to processorGroup.Done()
WorkerReceive(w) ==
    /\ Alive
    /\ wpc[w] = "recv"
    /\ urlChannel # <<>> \/ closed
    /\ LET url == IF urlChannel # <<>> THEN Head(urlChannel) ELSE EmptyString
       IN /\ urlChannel' = IF urlChannel # <<>> THEN AfterReceive(urlChannel)
                           ELSE urlChannel
          /\ IF url = EmptyString
             THEN /\ wpc' = [wpc EXCEPT ![w] = "done"]
                  /\ wg' = wg - 1
                  /\ UNCHANGED wurl
             ELSE /\ wpc' = [wpc EXCEPT ![w] = "Processor"]
                  /\ wurl' = [wurl EXCEPT ![w] = url]
                  /\ UNCHANGED wg
    /\ UNCHANGED <<args, result, argv, network, order, state, Responses, ShouldClose, pc, handler,
                   sigChan, sigSent, closed, closes, i, pauses, dropped,
                   cancelAt, wresp, wret, probed, output>>

\* Request(url): what http.Get answers, nil on error
Request(word) == network[word]

\* statusCode[:strings.Index(statusCode, " ")] of PrintResponse panics
\* (slice bounds out of range) when the status holds no space
PrintResponsePanics(r) == IndexSpace(r.StatusCode) < 0

\* state.Processor(url, state), that is Check: it prefixes the url, requests it
\* and builds the value it returns from state.Responses as it reads it now;
\* a panic in PrintResponse ends the process
WorkerCheck(w) ==
    /\ Alive
    /\ wpc[w] = "Processor"
    /\ probed' = [probed EXCEPT ![wurl[w]] = @ + 1]
    /\ LET url  == PrefixURL(wurl[w])
           resp == Request(wurl[w])
           r    == URLResponse(resp.Status, url)
       IN /\ wurl' = [wurl EXCEPT ![w] = url]
          /\ wresp' = [wresp EXCEPT ![w] = resp]
          /\ IF resp.ok
             THEN IF PrintResponsePanics(r)
                  THEN /\ pc' = "panic"
                       /\ UNCHANGED <<wret, wpc>>
                  ELSE /\ wret' = [wret EXCEPT ![w] = Append(Responses, r)]
                       /\ wpc' = [wpc EXCEPT ![w] = "store"]
                       /\ UNCHANGED pc
             ELSE /\ wret' = [wret EXCEPT ![w] = Responses]
                  /\ wpc' = [wpc EXCEPT ![w] = "store"]
                  /\ UNCHANGED pc
    /\ UNCHANGED <<args, result, argv, network, order, state, Responses, ShouldClose, handler,
                   sigChan, sigSent, urlChannel, closed, closes, wg, i, pauses,
                   dropped, cancelAt, output>>

\* state.Responses = <the value state.Processor returned>; the locals of the
\* iteration go out of scope
WorkerStore(w) ==
    /\ Alive
    /\ wpc[w] = "store"
    /\ Responses' = wret[w]
    /\ wret' = [wret EXCEPT ![w] = <<>>]
    /\ wurl' = [wurl EXCEPT ![w] = EmptyString]
    /\ wresp' = [wresp EXCEPT ![w] = NoResponse]
    /\ wpc' = [wpc EXCEPT ![w] = "recv"]
    /\ UNCHANGED <<args, result, argv, network, order, state, ShouldClose, pc, handler, sigChan,
                   sigSent, urlChannel, closed, closes, wg, i, pauses, dropped,
                   cancelAt, probed, output>>

----------------------------------------------------------------------------
(* Specifications *)

Main ==
    \/ ParseArgs
    \/ StartSignalHandler
    \/ ProcessStart
    \/ DispatcherRange
    \/ DispatcherSend
    \/ DispatcherClose
    \/ DispatcherWait
    \/ WriteOutput

Worker(w) ==
    \/ WorkerReceive(w)
    \/ WorkerCheck(w)
    \/ WorkerStore(w)

Next ==
    \/ Main
    \/ \E w \in Workers : Worker(w)
    \/ Interrupt
    \/ SignalHandler

Spec == Init /\ [][Next]_vars

\* the scenario of the throttle: 250 words, throttling on
ScenarioTargets == 250

ScenarioWords == [k \in 1..ScenarioTargets |-> <<k>>]

InitThrottle ==
    \E a \in [Threads : {1}, Verbose : {FALSE}, Throttle : {TRUE},
               OutputFileName : {OutputPath}, URL : {EmptyString},
               wordlist : {WordlistPath}, file : {FileOf(ScenarioWords)}] :
        InitWith(a, ScenarioWords,
                 [t \in Range(ScenarioWords) |->
                     IF t = <<1>> THEN HTTPResponse(Status200OK) ELSE NoResponse])

SpecThrottle == InitThrottle /\ [][Next]_vars

----------------------------------------------------------------------------
(* The sequential engine: main = ParseArgs; Process, where Process ranges   *)
(* over the wordlist and calls Check on each word itself.  state.Responses  *)
(* is a URLResponseSet here, i counts the iterations of the range loop and  *)
(* wurl is the url Check passed to Request last.                            *)

\* "http://"
StrHttpScheme == <<104, 116, 116, 112, 58, 47, 47>>

\* the words of the sequential runs: "a", "http://a", "http://b", ...
SequentialTargetNames ==
    {<<97>>} \cup {StrHttpScheme \o <<96 + k>> : k \in 1..MaxTargets}

\* http.Get fails on a url without scheme (unsupported protocol scheme "")
SequentialResponseChoices(t) ==
    IF HasPrefix(t, StrHttpScheme) \/ HasPrefix(t, StrHttpsScheme)
    THEN {NoResponse, HTTPResponse(Status200OK), HTTPResponse(Status200Bare)}
    ELSE {NoResponse}

SequentialArgChoices ==
    {a \in [Threads : {0 - 1, 1}, Verbose : {FALSE}, Throttle : {FALSE},
            OutputFileName : {EmptyString, OutputPath},
            URL : {EmptyString, <<97>>},
            wordlist : {EmptyString, WordlistPath},
            file : {NoFile} \cup
                   {FileOf(CHOOSE s \in MapOrders(S) : TRUE) :
                        S \in SUBSET SequentialTargetNames}] :
        /\ a.wordlist = EmptyString => a.file = NoFile
        /\ a.wordlist # EmptyString => a.URL = EmptyString}

InitSequential ==
    \E a \in SequentialArgChoices :
        \E ord \in MapOrders(WordlistOf(a)) :
            \E net \in [WordlistOf(a) ->
                            UNION {SequentialResponseChoices(t) : t \in WordlistOf(a)}] :
                /\ \A t \in WordlistOf(a) : net[t] \in SequentialResponseChoices(t)
                /\ argv = a
                /\ order = ord
                /\ network = net
                /\ state = Nil
                /\ Responses = {}
                /\ pc = "ParseArgs"
                /\ i = 0
                /\ wurl = EmptyString
                /\ probed = [t \in WordlistOf(a) |-> 0]
                /\ output = NoOutput
                /\ ShouldClose = FALSE
                /\ handler = FALSE
                /\ sigChan = 0
                /\ sigSent = 0
                /\ urlChannel = <<>>
                /\ closed = FALSE
                /\ closes = 0
                /\ wg = 0
                /\ pauses = <<>>
                /\ dropped = {}
                /\ cancelAt = NotCancelled
                /\ wpc = <<>>
                /\ wresp = <<>>
                /\ wret = <<>>
                /\ args = NoCall
                /\ result = NoCall

\* what the sequential engine leaves alone
concurrentVars == <<ShouldClose, handler, sigChan, sigSent, urlChannel, closed,
                    closes, wg, pauses, dropped, cancelAt, wpc, wresp, wret,
                    args, result>>

\* the local `valid` of ParseArgs at its end: the wordlist is not tested
SequentialValid(a) ==
    /\ ~InvalidThreads(a.Threads)
    /\ ~(a.URL = EmptyString /\ a.wordlist = EmptyString)

\* the State ParseArgs builds
SequentialStateOf(a) ==
    [Threads        |-> a.Threads,
     Verbose        |-> a.Verbose,
     OutputFileName |-> a.OutputFileName,
     WriteOutput    |-> a.OutputFileName # EmptyString,
     Wordlist       |-> WordlistOf(a)]

SequentialParseArgs ==
    /\ pc = "ParseArgs"
    /\ state' = IF SequentialValid(argv) THEN SequentialStateOf(argv) ELSE Nil
    /\ pc' = IF SequentialValid(argv) THEN "Process" ELSE "exit"
    /\ UNCHANGED <<argv, network, order, Responses, i, wurl, probed, output>>
    /\ UNCHANGED concurrentVars

\* PrefixURL of the sequential engine
SequentialPrefixURL(url) ==
    IF ~HasPrefix(url, StrHttp) THEN StrHttpScheme \o url ELSE url

\* the url Check passes to Request: Check calls PrefixURL(url) as a statement,
\* so what PrefixURL returns is dropped and url is as it was
SequentialCheckURL(url) ==
    LET prefixed == SequentialPrefixURL(url) IN url

\* Request(url): http.Get; on an error it prints and goes on to
\* `defer resp.Body.Close()` with resp = nil, a nil pointer dereference
SequentialRequest(url) == network[url]
SequentialRequestPanics(resp) == ~resp.ok

\* URLResponseSet.Add
SequentialAdd(set, r) == set \cup {r}

\* one iteration of `for word := range state.Wordlist.set`: Check(word), then
\* state.Responses.Add(response)
SequentialCheck ==
    /\ pc = "Process"
    /\ i < Len(order)
    /\ LET word == order[i + 1]
           url  == SequentialCheckURL(word)
           resp == SequentialRequest(url)
           r    == URLResponse(resp.Status, url)
       IN /\ probed' = [probed EXCEPT ![word] = @ + 1]
          /\ wurl' = url
          /\ IF SequentialRequestPanics(resp) \/ PrintResponsePanics(r)
             THEN /\ pc' = "panic"
                  /\ UNCHANGED <<Responses, i>>
             ELSE /\ Responses' = SequentialAdd(Responses, r)
                  /\ i' = i + 1
                  /\ UNCHANGED pc
    /\ UNCHANGED <<argv, network, order, state, output>>
    /\ UNCHANGED concurrentVars

\* the range loop is over: `if state.WriteOutput { WriteOutput(state) }`
SequentialLoopEnd ==
    /\ pc = "Process"
    /\ i = Len(order)
    /\ pc' = IF state.WriteOutput THEN "WriteOutput" ELSE "exit"
    /\ UNCHANGED <<argv, network, order, state, Responses, i, wurl, probed, output>>
    /\ UNCHANGED concurrentVars

\* u.StatusCode + " " + u.URL + "\n"
SequentialOutputLine(r) == r.StatusCode \o <<Space>> \o r.URL \o <<10>>

\* WriteOutput(state): ranges over the map state.Responses.set
SequentialWriteOutput ==
    /\ pc = "WriteOutput"
    /\ \E ord \in MapOrders(Responses) :
          LET lines == [k \in 1..Len(ord) |-> SequentialOutputLine(ord[k])]
          IN \/ output' = [called |-> TRUE, created |-> FALSE, lines |-> <<>>,
                           failed |-> {}, ok |-> FALSE]
             \/ \E failed \in SUBSET (1..Len(ord)) :
                    output' = [called |-> TRUE, created |-> TRUE,
                               lines |-> WrittenLines(lines, failed),
                               failed |-> failed, ok |-> TRUE]
    /\ pc' = "exit"
    /\ UNCHANGED <<argv, network, order, state, Responses, i, wurl, probed>>
    /\ UNCHANGED concurrentVars

NextSequential ==
    \/ SequentialParseArgs
    \/ SequentialCheck
    \/ SequentialLoopEnd
    \/ SequentialWriteOutput

SpecSequential == InitSequential /\ [][NextSequential]_vars

----------------------------------------------------------------------------
(* Check, PrintResponse and PrefixURL of the concurrent engine, each called *)
(* on its own with arguments drawn from small sets: args holds the          *)
(* arguments, result what the call returned.                                *)

\* strconv.Itoa for n >= 0
RECURSIVE Itoa(_)
Itoa(n) == IF n < 10 THEN <<48 + n>> ELSE Itoa(n \div 10) \o <<48 + (n % 10)>>

\* the value of a string of digits
RECURSIVE DigitsValue(_)
DigitsValue(s) ==
    IF s = <<>> THEN 0
    ELSE 10 * DigitsValue(SubSeq(s, 1, Len(s) - 1)) + (s[Len(s)] - 48)

\* strconv.Atoi: an optional sign, then one or more digits
Atoi(s) ==
    LET signed == s # <<>> /\ s[1] \in {43, 45}
        digits == IF signed THEN Tail(s) ELSE s
    IN IF digits = <<>> \/ \E k \in 1..Len(digits) : digits[k] \notin 48..57
       THEN [err |-> TRUE, value |-> 0]
       ELSE [err |-> FALSE,
             value |-> IF signed /\ s[1] = 45 THEN 0 - DigitsValue(digits)
                       ELSE DigitsValue(digits)]

\* a switch whose first case is `status > 500`
BracketAbove500(status) ==
    IF status > 500 THEN "HiRed"
    ELSE IF status > 399 THEN "Magenta"
    ELSE IF status > 299 THEN "Yellow"
    ELSE "Green"

\* the switch of PrintResponse: the colour it prints in
Bracket(status) ==
    IF status > 499 THEN "HiRed"
    ELSE IF status > 399 THEN "Magenta"
    ELSE IF status > 299 THEN "Yellow"
    ELSE "Green"

\* PrintResponse(r): it panics when the status holds no space, prints nothing
\* when Atoi fails, and else prints in the colour of the bracket
PrintResponse(r) ==
    IF PrintResponsePanics(r)
    THEN [panics |-> TRUE, printed |-> FALSE, color |-> "none"]
    ELSE LET a == Atoi(SubSeq(r.StatusCode, 1, IndexSpace(r.StatusCode)))
         IN IF a.err
            THEN [panics |-> FALSE, printed |-> FALSE, color |-> "none"]
            ELSE [panics |-> FALSE, printed |-> TRUE, color |-> Bracket(a.value)]

\* the answers of the servers: none (the GET fails), or a status line and a
\* Location header ("" when absent)
NoAnswer == [ok |-> FALSE, StatusCode |-> 0, Status |-> EmptyString,
             Location |-> EmptyString]
Answer(code, reason, location) ==
    [ok |-> TRUE, StatusCode |-> code, Status |-> Itoa(code) \o <<Space>> \o reason,
     Location |-> location]

\* "OK"
ReasonOK == <<79, 75>>

\* http.Get uses http.DefaultClient, which follows the redirects 301, 302, 303,
\* 307 and 308 that carry a Location and gives up after 10 of them
ClientRedirectCodes == {301, 302, 303, 307, 308}
ClientMaxRedirects == 10

\* http.Get(url) against servers: the response (NoAnswer on an error) and the
\* urls requested, after n redirects
RECURSIVE ClientGet(_, _, _, _)
ClientGet(servers, url, n, requested) ==
    IF url \notin DOMAIN servers \/ ~servers[url].ok
    THEN [resp |-> NoAnswer, requests |-> Append(requested, url)]
    ELSE IF servers[url].StatusCode \in ClientRedirectCodes
            /\ servers[url].Location # EmptyString
         THEN IF n >= ClientMaxRedirects
              THEN [resp |-> NoAnswer, requests |-> Append(requested, url)]
              ELSE ClientGet(servers, servers[url].Location, n + 1,
                             Append(requested, url))
         ELSE [resp |-> servers[url], requests |-> Append(requested, url)]

\* Check(url, state) with state.Responses = responses: state.FollowRedirect and
\* state.Client are not used, Request calls http.Get
CheckOf(url, responses, followRedirect, servers) ==
    LET u   == PrefixURL(url)
        get == ClientGet(servers, u, 0, <<>>)
        r   == URLResponse(get.resp.Status, u)
    IN IF get.resp.ok
       THEN [fn |-> "Check", panics |-> PrintResponse(r).panics,
             returned |-> Append(responses, r), requests |-> get.requests]
       ELSE [fn |-> "Check", panics |-> FALSE,
             returned |-> responses, requests |-> get.requests]

\* what the transport of RedirectHandler returns: a response and a nil error,
\* or a nil response and an error
NilResponse == [nil |-> TRUE, StatusCode |-> 0]
NilError == [nil |-> TRUE, kind |-> "none", StatusCode |-> 0]
TransportResponse(code) ==
    [resp |-> [nil |-> FALSE, StatusCode |-> code], err |-> NilError]
TransportError ==
    [resp |-> NilResponse, err |-> [nil |-> FALSE, kind |-> "transport", StatusCode |-> 0]]

\* &RedirectError{StatusCode: code}
RedirectError(code) == [nil |-> FALSE, kind |-> "RedirectError", StatusCode |-> code]

\* the redirects http.Client follows: 308 in, 304 and 305 out
InterceptedStatusCodesOfClient == {301, 302, 303, 307, 308}

\* the cases of the switch of RoundTrip: http.StatusMovedPermanently, StatusFound,
\* StatusSeeOther, StatusNotModified, StatusUseProxy, StatusTemporaryRedirect
InterceptedStatusCodes == {301, 302, 303, 304, 305, 307}

\* RedirectHandler.RoundTrip, t being what rh.Transport.RoundTrip(req) returns
RoundTrip(followRedirect, t) ==
    IF followRedirect THEN t
    ELSE IF ~t.err.nil THEN t
    ELSE IF t.resp.StatusCode \in InterceptedStatusCodes
         THEN [resp |-> NilResponse, err |-> RedirectError(t.resp.StatusCode)]
         ELSE t

\* an Add that returns found instead of !found
URLResponseSetAddReturnsFound(m, r) ==
    [set |-> [k \in DOMAIN m \cup {r} |-> IF k = r THEN TRUE ELSE m[k]],
     ret |-> r \in DOMAIN m]

\* URLResponseSet.Add on the map m (set.set): the map after the call and the
\* value returned
URLResponseSetAdd(m, r) ==
    [set |-> [k \in DOMAIN m \cup {r} |-> IF k = r THEN TRUE ELSE m[k]],
     ret |-> ~(r \in DOMAIN m)]

\* URLResponseSet.Contains
URLResponseSetContains(m, r) == r \in DOMAIN m

\* the urls that have a server: "https://a", "https://b"
ServerURLs == {StrHttpsScheme \o <<97>>, StrHttpsScheme \o <<98>>}

\* what a server may answer
AnswerChoices ==
    {NoAnswer, Answer(200, ReasonOK, EmptyString), Answer(404, ReasonOK, EmptyString)}
        \cup {Answer(302, ReasonOK, loc) : loc \in ServerURLs}

\* the targets: "a", "b", "http://a", "https://a", "httpa"
URLChoices ==
    {<<97>>, <<98>>, StrHttpScheme \o <<97>>, StrHttpsScheme \o <<97>>,
     StrHttp \o <<97>>}

\* the status codes and reason phrases PrintResponse is called with
StatusCodes == 100..MaxStatusCode
ReasonChoices == {ReasonOK, EmptyString}

\* the Outcomes the set is tried with, and the maps Adds can have built
URLResponseChoices ==
    {URLResponse(st, u) : st \in {Status200OK, Status404}, u \in ServerURLs}
URLResponseSetChoices ==
    {[k \in S |-> TRUE] : S \in SUBSET URLResponseChoices}

CallChoices ==
    [fn : {"Check"}, url : URLChoices, FollowRedirect : BOOLEAN,
     servers : [ServerURLs -> AnswerChoices]]
    \cup [fn : {"PrintResponse"}, code : StatusCodes, reason : ReasonChoices]
    \cup [fn : {"PrefixURL"}, url : URLChoices]
    \cup [fn : {"URLResponseSet"}, set : URLResponseSetChoices,
          r : URLResponseChoices, q : URLResponseChoices]
    \cup [fn : {"RoundTrip"}, FollowRedirect : BOOLEAN,
          transport : {TransportError} \cup {TransportResponse(c) : c \in StatusCodes}]

InitCalls ==
    \E c \in CallChoices :
        /\ args = c
        /\ result = NoCall
        /\ argv = <<>>
        /\ order = <<>>
        /\ network = <<>>
        /\ state = Nil
        /\ Responses = <<>>
        /\ pc = "call"
        /\ i = 0
        /\ wurl = <<>>
        /\ probed = <<>>
        /\ output = NoOutput
        /\ ShouldClose = FALSE
        /\ handler = FALSE
        /\ sigChan = 0
        /\ sigSent = 0
        /\ urlChannel = <<>>
        /\ closed = FALSE
        /\ closes = 0
        /\ wg = 0
        /\ pauses = <<>>
        /\ dropped = {}
        /\ cancelAt = NotCancelled
        /\ wpc = <<>>
        /\ wresp = <<>>
        /\ wret = <<>>

\* what a call leaves alone
programVars == <<argv, network, order, state, Responses, ShouldClose, handler,
                 sigChan, sigSent, urlChannel, closed, closes, wg, i, pauses,
                 dropped, cancelAt, wpc, wurl, wresp, wret, probed, output>>

\* Check(args.url, state), state.Responses being empty
CallCheck ==
    /\ pc = "call"
    /\ args.fn = "Check"
    /\ result' = CheckOf(args.url, <<>>, args.FollowRedirect, args.servers)
    /\ pc' = IF result'.panics THEN "panic" ELSE "return"
    /\ UNCHANGED args
    /\ UNCHANGED programVars

\* PrintResponse(&r) for an Outcome with the status "<code> <reason>"
CallPrintResponse ==
    /\ pc = "call"
    /\ args.fn = "PrintResponse"
    /\ LET r == URLResponse(Itoa(args.code) \o <<Space>> \o args.reason,
                            StrHttpsScheme \o <<97>>)
       IN result' = [fn |-> "PrintResponse"] @@ PrintResponse(r)
    /\ pc' = IF result'.panics THEN "panic" ELSE "return"
    /\ UNCHANGED args
    /\ UNCHANGED programVars

\* PrefixURL(args.url), and PrefixURL of what it returned
CallPrefixURL ==
    /\ pc = "call"
    /\ args.fn = "PrefixURL"
    /\ result' = [fn |-> "PrefixURL", url |-> PrefixURL(args.url),
                  again |-> PrefixURL(PrefixURL(args.url))]
    /\ pc' = "return"
    /\ UNCHANGED args
    /\ UNCHANGED programVars

\* rh.RoundTrip(req), the transport returning args.transport
CallRoundTrip ==
    /\ pc = "call"
    /\ args.fn = "RoundTrip"
    /\ result' = [fn |-> "RoundTrip"] @@ RoundTrip(args.FollowRedirect, args.transport)
    /\ pc' = "return"
    /\ UNCHANGED args
    /\ UNCHANGED programVars

\* set.Add(r), set.Contains(r), set.Add(r) once more; and on the set as it was,
\* Add(r) then Add(q), and Add(q) then Add(r)
CallURLResponseSet ==
    /\ pc = "call"
    /\ args.fn = "URLResponseSet"
    /\ LET first  == URLResponseSetAdd(args.set, args.r)
           second == URLResponseSetAdd(first.set, args.r)
       IN result' =
              [fn |-> "URLResponseSet",
               first |-> first.ret,
               afterFirst |-> first.set,
               contains |-> URLResponseSetContains(first.set, args.r),
               second |-> second.ret,
               afterSecond |-> second.set,
               rq |-> URLResponseSetAdd(first.set, args.q).set,
               qr |-> URLResponseSetAdd(URLResponseSetAdd(args.set, args.q).set,
                                        args.r).set]
    /\ pc' = "return"
    /\ UNCHANGED args
    /\ UNCHANGED programVars

NextCalls ==
    \/ CallURLResponseSet
    \/ CallCheck
    \/ CallPrintResponse
    \/ CallPrefixURL
    \/ CallRoundTrip

SpecCalls == InitCalls /\ [][NextCalls]_vars

----------------------------------------------------------------------------
(* Properties *)

\* Process has returned (main then returns)
ProcessReturned == pc = "exit" /\ state # Nil

\* the words of the wordlist state.Processor has been called with
Probed == {t \in DOMAIN probed : probed[t] > 0}

\* the number of calls of state.Processor so far
RECURSIVE SumProbed(_)
SumProbed(S) ==
    IF S = {} THEN 0
    ELSE LET t == CHOOSE x \in S : TRUE IN probed[t] + SumProbed(S \ {t})

NumProbes == SumProbed(DOMAIN probed)

\* the words sent on urlChannel so far
Dispatched == {order[k] : k \in 1..i}

\* C1: under every interleaving of the dispatcher and the workers no word of the
\* wordlist is probed twice, and a word the dispatcher dropped at its break
\* (the cancel flag was set before its push) is never probed.
C1_ProbedAtMostOnce ==
    \A t \in DOMAIN probed :
        /\ probed[t] <= 1
        /\ t \in dropped => probed[t] = 0

\* a cancelled run that has returned with one word probed and another dropped
C1_Witness ==
    /\ ProcessReturned
    /\ dropped # {}
    /\ \E t \in DOMAIN probed : probed[t] = 1 /\ t \notin dropped

\* C2: with Threads > 0 and no cancellation, when Process returns every word
\* the dispatcher pushed on urlChannel has been passed to the Processor.
C2_DispatchedAreProbed ==
    (ProcessReturned /\ state.Threads > 0 /\ ~ShouldClose)
        => \A t \in Dispatched : probed[t] = 1

\* C3: a thread count <= 0 is rejected by ParseArgs: it returns nil, Process is
\* never entered, nothing is dispatched and nothing probed.
C3_NonPositiveThreadsRejected ==
    (argv.Threads <= 0 /\ pc # "ParseArgs")
        => /\ state = Nil
           /\ pc = "exit"
           /\ i = 0
           /\ NumProbes = 0

\* C4: with Threads > 0 and a non-empty wordlist of non-empty strings, Process
\* runs its shutdown sequence to the end: as long as it has not returned, the
\* main goroutine or a worker can take a step (no state in which the run is
\* stuck with Process not returned).
C4_ShutdownCompletes ==
    (/\ state # Nil
     /\ state.Threads > 0
     /\ state.Wordlist # {}
     /\ EmptyString \notin state.Wordlist)
        => \/ ProcessReturned
           \/ ENABLED (Main \/ \E w \in Workers : Worker(w))

\* C5: if state.ShouldClose is already true before the dispatcher's first
\* iteration, nothing is pushed on urlChannel and no probe occurs in the run.
C5_CancelledBeforeFirstIteration ==
    (cancelAt.set /\ cancelAt.beforeLoop)
        => /\ i = 0
           /\ urlChannel = <<>>
           /\ NumProbes = 0

\* a run cancelled before the first iteration that has returned
C5_Witness ==
    /\ ProcessReturned
    /\ cancelAt.set
    /\ cancelAt.beforeLoop
    /\ Cardinality(state.Wordlist) > 1
    /\ state.Threads > 0

\* C6: if the cancel flag is set after K of M words were dispatched, then when
\* Process returns at least K and at most M probes have occurred.
C6_ProbesBetweenKAndM ==
    (ProcessReturned /\ cancelAt.set)
        => /\ NumProbes >= cancelAt.K
           /\ NumProbes <= Cardinality(state.Wordlist)

\* C7: whenever the handler goroutine receives an interrupt from SignalChannel,
\* state.ShouldClose is true afterwards, whatever the configuration.
C7_InterruptSetsFlag == [][sigChan' < sigChan => ShouldClose']_vars

\* C8: with throttling and 250 words dispatched without cancellation, the
\* dispatcher has paused exactly twice: after the 100th and after the 200th
\* dispatch.
C8_TwoPauses ==
    (state # Nil /\ state.Throttle /\ pc = "close" /\ i = ScenarioTargets)
        => pauses = <<100, 200>>

\* C9: when Process returns, state.Responses holds one Outcome for every probe
\* that obtained a response.
C9_NoOutcomeLost ==
    ProcessReturned
        => Len(Responses) = Cardinality({t \in Probed : network[t].ok})

\* C10: state.Responses is never read-modify-written by two goroutines at once:
\* at most one worker is between its read of state.Responses and its store.
C10_SingleWriter ==
    Cardinality({w \in Workers : wpc[w] = "store"}) <= 1

\* C11 (as claimed): with Threads > 0 and a non-empty wordlist, in every
\* reachable state state.Responses holds at most as many Outcomes as words were
\* dispatched so far, and the URL of every Outcome is a word of the wordlist.
C11_OutcomesAreWordlistMembers ==
    (state # Nil /\ state.Threads > 0 /\ state.Wordlist # {})
        => /\ Len(Responses) <= i
           /\ \A k \in 1..Len(Responses) : Responses[k].URL \in state.Wordlist

\* C11 (amended): with Threads > 0 and a non-empty wordlist, in every reachable
\* state state.Responses holds at most as many Outcomes as words were dispatched
\* so far, and the URL of every Outcome is a word of the wordlist, or a word of
\* the wordlist with "https://" put before it.
C11_OutcomesFromWordlist ==
    (state # Nil /\ state.Threads > 0 /\ state.Wordlist # {})
        => /\ Len(Responses) <= i
           /\ \A k \in 1..Len(Responses) :
                 \E t \in state.Wordlist :
                     Responses[k].URL \in {t, StrHttpsScheme \o t}

\* two Outcomes are in state.Responses
C11_Witness ==
    /\ state # Nil
    /\ state.Threads > 0
    /\ Len(Responses) = 2
    /\ Responses[1].URL # Responses[2].URL

\* C12: WriteOutput runs only after the dispatcher closed urlChannel and every
\* one of the Threads workers has returned: when WriteOutput is about to read
\* state.Responses, and ever after, no worker is probing or appending.
C12_WriteOutputAfterWorkers ==
    (pc = "WriteOutput" \/ output.called)
        => /\ closed
           /\ wg = 0
           /\ \A w \in 1..state.Threads : wpc[w] = "done"

\* WriteOutput has run after two workers recorded an Outcome
C12_Witness ==
    /\ output.called
    /\ state.Threads = 2
    /\ Len(Responses) > 0

\* C13: when a worker's GET failed, completing that probe records no Outcome,
\* leaves the Outcomes already in state.Responses as they are and does not end
\* the run: the worker goes back to pull the next target.
C13_FailedProbeKeepsOutcomes ==
    [][\A w \in Workers :
          (wpc[w] = "store" /\ ~wresp[w].ok /\ wpc'[w] # wpc[w])
              => /\ Responses' = Responses
                 /\ wpc'[w] = "recv"
                 /\ pc' = pc]_vars

\* C14: in the sequential engine a GET that fails for one target never aborts
\* the run: Process goes on to probe every remaining word of the wordlist and
\* reaches the output write.
C14_FailedGetDoesNotAbort ==
    (state # Nil /\ \E t \in Probed : ~network[t].ok)
        => /\ pc # "panic"
           /\ pc \in {"WriteOutput", "exit"} => \A t \in state.Wordlist : probed[t] = 1

\* C15: with FollowRedirect false, Check on a target whose server answers 302
\* returns an Outcome with the status 302 and requests nothing but the target;
\* with FollowRedirect true, Check on a target whose server redirects to a
\* server that answers 200 or 404 returns an Outcome with that final status.
C15_RedirectPolicy ==
    (result.fn = "Check" /\ PrefixURL(args.url) \in DOMAIN args.servers)
        => LET first == args.servers[PrefixURL(args.url)]
           IN (first.ok /\ first.StatusCode = 302)
                  => IF args.FollowRedirect
                     THEN args.servers[first.Location].StatusCode \in {200, 404}
                              => /\ Len(result.returned) = 1
                                 /\ result.returned[1].StatusCode =
                                        args.servers[first.Location].Status
                     ELSE /\ Len(result.returned) = 1
                          /\ result.returned[1].StatusCode = first.Status
                          /\ result.requests = <<PrefixURL(args.url)>>

\* C16: PrintResponse picks the bracket of the status code by the bounds
\* >= 500 server error (HiRed), 400-499 client error (Magenta), 300-399
\* redirect (Yellow), anything else success (Green).
C16_BracketByBounds ==
    result.fn = "PrintResponse"
        => /\ result.printed
           /\ result.color = IF args.code >= 500 THEN "HiRed"
                             ELSE IF args.code >= 400 /\ args.code <= 499 THEN "Magenta"
                             ELSE IF args.code >= 300 /\ args.code <= 399 THEN "Yellow"
                             ELSE "Green"

\* PrintResponse was called with the status code 500 and printed it in HiRed
C16_Witness ==
    /\ result.fn = "PrintResponse"
    /\ args.code = 500
    /\ result.color = "HiRed"

\* C17: a target that does not begin with "http://" or "https://" is requested
\* with "http://" put before it, a target that begins with one of them is
\* requested as it is, and normalising a normalised target changes nothing.
C17_DefaultSchemeHttp ==
    LET Normalised(t) ==
            IF HasPrefix(t, StrHttpScheme) \/ HasPrefix(t, StrHttpsScheme)
            THEN t ELSE StrHttpScheme \o t
    IN /\ result.fn = "Check" => result.requests[1] = Normalised(args.url)
       /\ result.fn = "PrefixURL"
              => /\ result.url = Normalised(args.url)
                 /\ result.again = result.url

\* C18: with no target URL and no wordlist, or with a wordlist file that is
\* missing, cannot be opened or holds no line, ParseArgs returns nil and main
\* returns without a dispatch and without a probe.
C18_InvalidConfigurationRejected ==
    (/\ pc # "ParseArgs"
     /\ \/ argv.URL = EmptyString /\ argv.wordlist = EmptyString
        \/ /\ argv.wordlist # EmptyString
           /\ ~argv.file.exists \/ ~argv.file.readable \/ argv.file.lines = <<>>)
        => /\ state = Nil
           /\ pc = "exit"
           /\ i = 0
           /\ urlChannel = <<>>
           /\ NumProbes = 0

\* main has returned for -t 1 and a wordlist file that cannot be opened
C18_Witness ==
    /\ pc = "exit"
    /\ state = Nil
    /\ argv.Threads > 0
    /\ argv.wordlist # EmptyString
    /\ argv.file = UnreadableFile

\* C19: the output file holds one line "<status> <url>" per Outcome of
\* state.Responses, the status first (no write having failed).
C19_StatusThenURL ==
    (output.created /\ output.failed = {})
        => output.lines = [k \in 1..Len(Responses) |->
                              Responses[k].StatusCode \o <<Space>>
                                  \o Responses[k].URL \o <<10>>]

\* C20: WriteOutput fails soft.  When the file cannot be created it returns
\* false and writes nothing; when the write of a line fails, the lines of the
\* other Outcomes are still written; in every case state.Responses is left as
\* it was and the process goes on to return from main.
C20_WriteOutputFailsSoft ==
    [][(pc = "WriteOutput" /\ pc' # pc)
          => /\ Responses' = Responses
             /\ pc' = "exit"
             /\ output'.called
             /\ ~output'.created => (output'.lines = <<>> /\ ~output'.ok)
             /\ output'.created
                    => /\ output'.ok
                       /\ \A k \in 1..Len(Responses) :
                              k \notin output'.failed
                                  => \E n \in 1..Len(output'.lines) :
                                         output'.lines[n] = OutputLine(Responses[k])]_vars

\* WriteOutput has returned after the write of the first of two Outcomes failed
C20_Witness ==
    /\ output.called
    /\ output.created
    /\ Len(Responses) = 2
    /\ output.failed = {1}
    /\ output.lines = <<OutputLine(Responses[2])>>

\* C21: the dispatcher reads the cancel flag before each push and pushes nothing
\* in an iteration in which it reads it as true: after the flag became true at
\* most one more word is sent (the one whose test had passed), and once the
\* loop is left every later word of the wordlist is dropped and never probed.
C21_AtMostOneSendAfterCancel ==
    cancelAt.set
        => /\ i <= cancelAt.K + 1
           /\ (pc = "send" /\ ShouldClose) => i = cancelAt.K
           /\ pc \in {"close", "wait", "WriteOutput", "exit"}
                  => /\ dropped = Remaining(i)
                     /\ \A t \in dropped : probed[t] = 0 /\ t \notin Range(urlChannel)

\* the flag became true while the dispatcher was about to send its second word;
\* that word was sent and the third was dropped
C21_Witness ==
    /\ ProcessReturned
    /\ cancelAt.set
    /\ cancelAt.K = 1
    /\ i = 2
    /\ dropped # {}

\* C22: with FollowRedirect false, RoundTrip returns a nil response and a
\* RedirectError carrying the status exactly when the transport's response has
\* one of the statuses 301, 302, 303, 304, 305, 307; for every other status and
\* for a transport error, and always with FollowRedirect true, it returns what
\* the transport returned.
C22_RoundTripIntercepts ==
    result.fn = "RoundTrip"
        => IF /\ ~args.FollowRedirect
              /\ args.transport.err.nil
              /\ args.transport.resp.StatusCode \in {301, 302, 303, 304, 305, 307}
           THEN /\ result.resp.nil
                /\ result.err.kind = "RedirectError"
                /\ result.err.StatusCode = args.transport.resp.StatusCode
           ELSE /\ result.resp = args.transport.resp
                /\ result.err = args.transport.err

\* RoundTrip has turned a 304 into a RedirectError
C22_Witness ==
    /\ result.fn = "RoundTrip"
    /\ ~args.FollowRedirect
    /\ args.transport.resp.StatusCode = 304
    /\ result.err = RedirectError(304)

\* the probes that have run to their end: Check has returned and the worker
\* has stored what it returned
NumProbesStored == NumProbes - Cardinality({w \in Workers : wpc[w] = "store"})

\* C23: the capacity of urlChannel is the number of workers: in every reachable
\* state at most Threads words are dispatched and not yet pulled by a worker,
\* and at most 2 * Threads words are dispatched and not yet fully probed.
C23_Backpressure ==
    state # Nil
        => /\ Len(urlChannel) <= state.Threads
           /\ i - NumProbesStored <= 2 * state.Threads

\* the dispatcher is blocked on a full urlChannel with a word to send
C23_Witness ==
    /\ pc = "send"
    /\ state.Threads = 2
    /\ Len(urlChannel) = 2
    /\ ~ENABLED DispatcherSend

\* C24: state.ShouldClose is written only by the signal handler goroutine and
\* only from false to true: a step that changes it is the handler's receive of
\* a signal, which moves neither the dispatcher nor a worker and does not touch
\* the output; once true the flag stays true.
C24_FlagOnlyRaisedByHandler ==
    [][ShouldClose' # ShouldClose
          => /\ ~ShouldClose
             /\ ShouldClose'
             /\ sigChan' = sigChan - 1
             /\ pc' = pc
             /\ wpc' = wpc
             /\ output' = output]_vars

\* the flag was set during the run and is still set after the output was written
C24_Witness ==
    /\ ProcessReturned
    /\ output.called
    /\ ShouldClose
    /\ NumProbes > 0

\* C25: a worker stops only on end-of-stream: whatever the wordlist file holds,
\* an empty line included, a worker has returned only if urlChannel is closed
\* and drained, and Process does not get stuck (the panic of PrintResponse
\* aside).
C25_WorkerStopsOnlyAtEndOfStream ==
    /\ \A w \in Workers : wpc[w] = "done" => (closed /\ urlChannel = <<>>)
    /\ (state # Nil /\ state.Threads > 0 /\ pc # "panic")
           => \/ ProcessReturned
              \/ ENABLED (Main \/ \E w \in Workers : Worker(w))

\* C26: the dispatcher closes urlChannel exactly once and after its last send,
\* on the exhausted path and on the cancelled path: nothing is sent on a closed
\* channel, the channel is never closed twice, and Process does not return
\* without having closed it.
C26_ClosedExactlyOnce ==
    /\ closes <= 1
    /\ closed <=> closes = 1
    /\ closed => pc \notin {"Process", "range", "send", "close"}
    /\ ProcessReturned => closes = 1

\* a cancelled run has returned: one word was sent, the rest dropped, and the
\* channel was closed once
C26_Witness ==
    /\ ProcessReturned
    /\ cancelAt.set
    /\ i = 1
    /\ dropped # {}
    /\ closes = 1

\* C27: PrintResponse handles every status string an Outcome can carry, one
\* without a space after the code included, without ending the run: no
\* goroutine panics.
C27_PrintResponseNeverPanics == pc # "panic"

\* C28: Check of the sequential engine requests the normalised target: the url
\* it passed to Request last is PrefixURL of the word of that iteration, and
\* the Outcome of every completed iteration holds PrefixURL of its word.
C28_CheckRequestsPrefixedURL ==
    /\ pc = "panic" => wurl = SequentialPrefixURL(order[i + 1])
    /\ (pc # "panic" /\ i > 0) => wurl = SequentialPrefixURL(order[i])
    /\ \A k \in 1..i : \E r \in Responses : r.URL = SequentialPrefixURL(order[k])

\* C29: URLResponseSet is a set of (status, URL) pairs: Add(r) returns true
\* exactly when r was not a member, Contains(r) is true after it, a second
\* Add(r) returns false and leaves the set as it is, and Add(r), Add(q) gives
\* the same set as Add(q), Add(r).
C29_URLResponseSetIsASet ==
    result.fn = "URLResponseSet"
        => /\ result.first <=> args.r \notin DOMAIN args.set
           /\ DOMAIN result.afterFirst = DOMAIN args.set \cup {args.r}
           /\ result.contains
           /\ ~result.second
           /\ result.afterSecond = result.afterFirst
           /\ result.rq = result.qr

\* two distinct Outcomes were added to a set that held a third
C29_Witness ==
    /\ result.fn = "URLResponseSet"
    /\ result.first
    /\ args.r # args.q
    /\ Cardinality(DOMAIN args.set) = 1
    /\ Cardinality(DOMAIN result.rq) = 3

====
